---- MODULE Spec2Model ----
(***************************************************************************)
(* Model of tools/directivesgen/main.go: the generator that reads the      *)
(* function declarations of directives.go, and for every declaration named *)
(* directive<Name> that carries a doc comment creates <Name>.md, parses    *)
(* the doc comment into a Directive record, renders it and writes it.      *)
(*                                                                         *)
(* A Go string is a sequence of one-character strings.                     *)
(***************************************************************************)
EXTENDS Integers, Sequences, FiniteSets, TLC

\* ------------------------------------------------------------- bounds
\* Doc-comment lines the scanner may deliver in one run.
MaxLines == 3
\* Function declarations in the source file.
MaxDecls == 2
\* Pieces a body line given to decorateNote is made of.
MaxPieces == 3
\* Pieces a field text given to the template is made of.
MaxMarks == 3

\* -------------------------------------------------- literals of the code
directivePrefix == <<"d", "i", "r", "e", "c", "t", "i", "v", "e">>
prefixLen == 9
marker == <<"-", "-", "-">>
sep == <<":", " ">>
strDescription == <<"D", "e", "s", "c", "r", "i", "p", "t", "i", "o", "n">>
strSyntax == <<"S", "y", "n", "t", "a", "x">>
strDefault == <<"D", "e", "f", "a", "u", "l", "t">>
noteOld == <<"N", "o", "t", "e", ":">>
noteNew == <<"*", "*", "N", "o", "t", "e", ":", "*", "*">>
newline == <<"\n">>
empty == <<>>

\* ------------------------------------------------ package strings (Go)
HasPrefix(s, p) == Len(s) >= Len(p) /\ SubSeq(s, 1, Len(p)) = p

\* strings.Index: the 0-based position of the first occurrence, or -1.
Index(s, sub) ==
  LET hits == {i \in 0..(Len(s) - Len(sub)) : SubSeq(s, i + 1, i + Len(sub)) = sub}
  IN IF hits = {} THEN -1 ELSE CHOOSE i \in hits : \A j \in hits : i <= j

\* strings.Cut: (before, after, found) around the first occurrence of sp.
Cut(s, sp) ==
  LET i == Index(s, sp)
  IN IF i >= 0
     THEN [before |-> SubSeq(s, 1, i),
           after |-> SubSeq(s, i + Len(sp) + 1, Len(s)),
           found |-> TRUE]
     ELSE [before |-> s, after |-> empty, found |-> FALSE]

IsSpace(c) == c \in {" ", "\t"}

RECURSIVE TrimLeft(_)
TrimLeft(s) ==
  IF s # empty /\ IsSpace(Head(s)) THEN TrimLeft(Tail(s)) ELSE s

RECURSIVE TrimRight(_)
TrimRight(s) ==
  IF s # empty /\ IsSpace(s[Len(s)]) THEN TrimRight(SubSeq(s, 1, Len(s) - 1)) ELSE s

TrimSpace(s) == TrimRight(TrimLeft(s))

\* strings.Replace(s, old, new, n) for a non-empty old: the first n
\* non-overlapping occurrences, all of them when n < 0.
RECURSIVE Replace(_, _, _, _)
Replace(s, old, new, n) ==
  LET j == Index(s, old)
  IN IF n = 0 \/ j < 0
     THEN s
     ELSE SubSeq(s, 1, j) \o new
          \o Replace(SubSeq(s, j + Len(old) + 1, Len(s)), old, new, n - 1)

\* ----------------------------------------------------------- decorateNote
decorateNoteFirstOnly(s) == Replace(s, noteOld, noteNew, 1)

decorateNote(s) == Replace(s, noteOld, noteNew, -1)

\* ------------------------------------------------------- Directive record
\* parseDirective's composite literal: Name and LastModification are set,
\* every other field is the empty string.
NewDirective(name, now) ==
  [Name |-> name, Description |-> empty, Syntax |-> empty, Default |-> empty,
   Date |-> empty, LastModification |-> now, Content |-> empty]

\* The keys of the fieldAppenders map.
fieldAppenders == {strDescription, strSyntax, strDefault}

\* fieldAppenders[key](&d, value)
AppendField(d, key, value) ==
  IF key = strDescription THEN [d EXCEPT !.Description = @ \o value]
  ELSE IF key = strSyntax THEN [d EXCEPT !.Syntax = @ \o value]
  ELSE [d EXCEPT !.Default = @ \o value]

\* ------------------------------------- one iteration of the fields loop
\* The three tests that precede the Cut.
ignoredLineBlankOnly(line) == Len(TrimSpace(line)) = 0

ignoredLineAnywhere(line) ==
  Index(line, directivePrefix) >= 0 \/ Len(TrimSpace(line)) = 0

ignoredLine(line) ==
  HasPrefix(line, directivePrefix) \/ Len(TrimSpace(line)) = 0

markerLineExact(line) == line = marker

markerLine(line) == HasPrefix(line, marker)

\* The value of a line without separator.
continuationNoSpace(line) == line

continuation(line) == <<" ">> \o line

\* The key and value the Cut and the !ok branch leave.
keyValueKnownKeysOnly(previousKey, line) ==
  LET c == Cut(line, sep)
  IN IF c.found /\ c.before \in fieldAppenders
     THEN [key |-> c.before, value |-> c.after]
     ELSE [key |-> previousKey, value |-> continuation(line)]

keyValue(previousKey, line) ==
  LET c == Cut(line, sep)
  IN IF c.found
     THEN [key |-> c.before, value |-> c.after]
     ELSE [key |-> previousKey, value |-> continuation(line)]

\* The dispatch on the key: what becomes of d and previousKey, and whether
\* log.Fatalf ends the process.
dispatchAlwaysFatal(d, previousKey, key, value) ==
  IF key \in fieldAppenders
  THEN [d |-> AppendField(d, key, value), previousKey |-> key, fatal |-> FALSE]
  ELSE [d |-> d, previousKey |-> previousKey, fatal |-> TRUE]

dispatchNeverFatal(d, previousKey, key, value) ==
  IF key \in fieldAppenders
  THEN [d |-> AppendField(d, key, value), previousKey |-> key, fatal |-> FALSE]
  ELSE IF previousKey # empty
  THEN [d |-> AppendField(d, previousKey, value), previousKey |-> previousKey,
        fatal |-> FALSE]
  ELSE [d |-> d, previousKey |-> previousKey, fatal |-> FALSE]

dispatch(d, previousKey, key, value) ==
  IF key \in fieldAppenders
  THEN [d |-> AppendField(d, key, value), previousKey |-> key, fatal |-> FALSE]
  ELSE IF previousKey # empty
  THEN [d |-> AppendField(d, previousKey, value), previousKey |-> previousKey,
        fatal |-> FALSE]
  ELSE [d |-> d, previousKey |-> previousKey, fatal |-> TRUE]

\* ---------------------------------------------- html/template, package html
\* html/template's escaper for text content.
htmlReplacement(c) ==
  IF c = "&" THEN <<"&", "a", "m", "p", ";">>
  ELSE IF c = "<" THEN <<"&", "l", "t", ";">>
  ELSE IF c = ">" THEN <<"&", "g", "t", ";">>
  ELSE IF c = "\"" THEN <<"&", "#", "3", "4", ";">>
  ELSE IF c = "'" THEN <<"&", "#", "3", "9", ";">>
  ELSE IF c = "+" THEN <<"&", "#", "4", "3", ";">>
  ELSE <<c>>

RECURSIVE HTMLEscape(_)
HTMLEscape(s) ==
  IF s = empty THEN empty ELSE htmlReplacement(Head(s)) \o HTMLEscape(Tail(s))

\* The entities html.UnescapeString resolves, of those the escaper emits and
\* their named forms; a named entity is also resolved without its semicolon.
entityTable ==
  << [text |-> <<"&", "a", "m", "p", ";">>, char |-> "&"],
     [text |-> <<"&", "l", "t", ";">>, char |-> "<"],
     [text |-> <<"&", "g", "t", ";">>, char |-> ">"],
     [text |-> <<"&", "q", "u", "o", "t", ";">>, char |-> "\""],
     [text |-> <<"&", "#", "3", "4", ";">>, char |-> "\""],
     [text |-> <<"&", "#", "3", "9", ";">>, char |-> "'"],
     [text |-> <<"&", "#", "4", "3", ";">>, char |-> "+"],
     [text |-> <<"&", "a", "m", "p">>, char |-> "&"],
     [text |-> <<"&", "l", "t">>, char |-> "<"],
     [text |-> <<"&", "g", "t">>, char |-> ">"],
     [text |-> <<"&", "q", "u", "o", "t">>, char |-> "\""] >>

UnescapeNothing(s) == s

RECURSIVE UnescapeString(_)
UnescapeString(s) ==
  IF s = empty THEN empty
  ELSE IF Head(s) # "&" THEN <<Head(s)>> \o UnescapeString(Tail(s))
  ELSE LET hits == {i \in 1..Len(entityTable) : HasPrefix(s, entityTable[i].text)}
       IN IF hits = {}
          THEN <<Head(s)>> \o UnescapeString(Tail(s))
          ELSE LET i == CHOOSE h \in hits : \A g \in hits : h <= g
               IN <<entityTable[i].char>>
                  \o UnescapeString(SubSeq(s, Len(entityTable[i].text) + 1, Len(s)))

\* The placeholders of template.md, in the order of the document.
contentTemplate ==
  <<"Name", "Description", "Syntax", "Default", "Date", "LastModification", "Content">>

RECURSIVE ExecuteFrom(_, _)
ExecuteFrom(d, i) ==
  IF i > Len(contentTemplate) THEN empty
  ELSE HTMLEscape(d[contentTemplate[i]]) \o newline \o ExecuteFrom(d, i + 1)

\* tmpl.Execute(&content, d): the buffer's text.
Execute(d) == ExecuteFrom(d, 1)

\* ------------------------------------------------------------------ inputs
\* Declaration names of the source file: a directive, the bare prefix, and
\* a function that is no directive.
fnFoo == <<"d", "i", "r", "e", "c", "t", "i", "v", "e", "F", "o", "o">>
fnBare == <<"d", "i", "r", "e", "c", "t", "i", "v", "e">>
fnHelper == <<"h", "e", "l", "p", "e", "r">>
DeclNames == {fnFoo, fnBare, fnHelper}

\* The declarations of the source file: name, and whether fn.Doc is non-nil.
Decls ==
  {[name |-> fnFoo, hasDoc |-> TRUE], [name |-> fnFoo, hasDoc |-> FALSE],
   [name |-> fnBare, hasDoc |-> TRUE], [name |-> fnHelper, hasDoc |-> TRUE]}

\* "directiveFoo: x"
lineEcho == <<"d", "i", "r", "e", "c", "t", "i", "v", "e", "F", "o", "o", ":", " ", "x">>
\* "  "
lineSpaces == <<" ", " ">>
\* "---"
lineMarker == <<"-", "-", "-">>
\* "----"
lineMarker4 == <<"-", "-", "-", "-">>
\* "--- x"
lineMarkerText == <<"-", "-", "-", " ", "x">>
\* "--"
lineTwoDash == <<"-", "-">>
\* "Description: a"
lineDesc == <<"D", "e", "s", "c", "r", "i", "p", "t", "i", "o", "n", ":", " ", "a">>
\* "Syntax: b"
lineSyn == <<"S", "y", "n", "t", "a", "x", ":", " ", "b">>
\* "Default: c"
lineDef == <<"D", "e", "f", "a", "u", "l", "t", ":", " ", "c">>
\* "Bogus: x"
lineBogus == <<"B", "o", "g", "u", "s", ":", " ", "x">>
\* "more"
lineCont == <<"m", "o", "r", "e">>
\* "a directive"
lineMid == <<"a", " ", "d", "i", "r", "e", "c", "t", "i", "v", "e">>
\* "Description: a: b"
lineTwoSep == <<"D", "e", "s", "c", "r", "i", "p", "t", "i", "o", "n", ":", " ", "a", ":", " ", "b">>
\* "Note: n"
lineNote == <<"N", "o", "t", "e", ":", " ", "n">>

\* The lines parseDirective is given when it is checked on its own.
ParseLines ==
  {empty, lineEcho, lineSpaces, lineMarker, lineMarker4, lineMarkerText,
   lineTwoDash, lineDesc, lineSyn, lineDef, lineBogus, lineCont, lineMid,
   lineTwoSep, lineNote}

\* The lines of the doc comments of a whole run.
DocLines == {lineDesc, lineBogus, lineMarker, lineNote}

\* time.Now().Format(time.RFC3339), two instants.
Times == {<<"t", "1">>, <<"t", "2">>}

\* Body lines given to decorateNote: up to MaxPieces of these, concatenated.
NotePieces ==
  {noteOld, <<"N", "o", "t", "e">>, <<":">>, <<"N">>, <<"x">>, <<"*", "*">>, <<" ">>}

RECURSIVE Concatenations(_)
Concatenations(n) ==
  IF n = 0 THEN {empty}
  ELSE LET shorter == Concatenations(n - 1)
       IN shorter \cup {s \o p : s \in shorter, p \in NotePieces}

NoteInputs == Concatenations(MaxPieces)

\* Field texts given to the template: up to MaxMarks of these, concatenated.
MarkPieces ==
  {<<"&">>, <<"<">>, <<"\"">>, <<"'">>, <<"l", "t", ";">>, <<"a", "m", "p", ";">>,
   <<"#", "3", "9", ";">>, <<"x">>}

RECURSIVE MarkTexts(_)
MarkTexts(n) ==
  IF n = 0 THEN {empty}
  ELSE LET shorter == MarkTexts(n - 1)
       IN shorter \cup {s \o p : s \in shorter, p \in MarkPieces}

RenderInputs == MarkTexts(MaxMarks)

\* The name of the destination file's directive: fnName[9:].
directiveNameOf(fnName) == SubSeq(fnName, prefixLen + 1, Len(fnName))

\* The destination files a run can name. Before the run dstDir holds Foo.md
\* of an earlier run and no other file.
OutNames == {directiveNameOf(n) : n \in {m \in DeclNames : HasPrefix(m, directivePrefix)}}
fileFoo == <<"F", "o", "o">>
NoFile == [exists |-> FALSE, data |-> empty]
OldFile == [exists |-> TRUE, data |-> <<"o", "l", "d">>]

\* ------------------------------------------------------------------- state
VARIABLES
  pc,           \* where main is
  visited,      \* the function declarations ast.Inspect has handed over, in order
  files,        \* dstDir: directive name -> [exists, data]
  open,         \* the declarations (by position) whose *os.File is open
  events,       \* history: the file operations done, in order
  written,      \* history: name -> the text WriteString put in it since it was created
  d,            \* parseDirective's Directive
  previousKey,  \* parseDirective's previousKey
  consumed,     \* history: the lines scanner.Scan has delivered in this call
  nread,        \* history: the lines delivered in the whole run
  content,      \* main's bytes.Buffer
  err,          \* what log.Fatal was given
  noteArg,      \* decorateNote's argument, when it is checked on its own
  noteRet       \* decorateNote's result, wrapped: <<>> before the call

vars ==
  <<pc, visited, files, open, events, written, d, previousKey, consumed, nread, content,
    err, noteArg, noteRet>>

parseVars == <<d, previousKey, consumed, nread>>
noteVars == <<noteArg, noteRet>>
fileVars == <<files, open, events, written>>

NoDirective == NewDirective(empty, empty)

\* No WriteString has returned for the file since it was created, or none at all.
NotWritten == [decl |-> 0, text |-> empty]

Last(q) == q[Len(q)]

Init ==
  /\ pc = "loadTemplate"
  /\ visited = <<>>
  /\ files = [n \in OutNames |-> IF n = fileFoo THEN OldFile ELSE NoFile]
  /\ open = {}
  /\ events = <<>>
  /\ written = [n \in OutNames |-> NotWritten]
  /\ d = NoDirective
  /\ previousKey = empty
  /\ consumed = <<>>
  /\ nread = 0
  /\ content = empty
  /\ err = ""
  /\ noteArg = empty
  /\ noteRet = <<>>

\* log.Fatal: the process exits, deferred calls do not run.
Fatal(what) ==
  /\ pc' = "fatal"
  /\ err' = what

\* ------------------------------------------------------------ main, set-up
\* template.New("directive").Parse(contentTemplate)
LoadTemplate ==
  /\ pc = "loadTemplate"
  /\ \/ pc' = "readSource" /\ UNCHANGED err
     \/ Fatal("template")
  /\ UNCHANGED <<visited, fileVars, parseVars, content, noteVars>>

\* os.ReadFile("./coraza/internal/seclang/directives.go")
ReadSource ==
  /\ pc = "readSource"
  /\ \/ pc' = "parseSource" /\ UNCHANGED err
     \/ Fatal("read")
  /\ UNCHANGED <<visited, fileVars, parseVars, content, noteVars>>

\* parser.ParseFile(fset, "directives.go", src, parser.ParseComments)
ParseSourceLogsAndContinues ==
  /\ pc = "parseSource"
  /\ pc' = "inspect"
  /\ err' \in {"", "parse"}
  /\ UNCHANGED <<visited, fileVars, parseVars, content, noteVars>>

ParseSource ==
  /\ pc = "parseSource"
  /\ \/ pc' = "inspect" /\ UNCHANGED err
     \/ Fatal("parse")
  /\ UNCHANGED <<visited, fileVars, parseVars, content, noteVars>>

\* ------------------------------------------------- main, the Inspect callback
\* The deferred f.Close() of the callback: the files open once it has returned.
openAfterReturnNeverClosed(handles, decl) == handles

openAfterReturn(handles, decl) == handles \ {decl}

\* os.Create: the file exists and is empty, whatever it held.
createdKeepsData(fs, name) == [fs EXCEPT ![name].exists = TRUE]

created(fs, name) == [fs EXCEPT ![name] = [exists |-> TRUE, data |-> empty]]

\* The filter of the callback, the two early returns.
matchesAnyName(decl) == decl.hasDoc

matches(decl) == HasPrefix(decl.name, directivePrefix) /\ decl.hasDoc

\* case *ast.FuncDecl, up to the deferred Close: a declaration that is no
\* documented directive is passed over; else its file is created.
VisitDecl ==
  /\ pc = "inspect"
  /\ Len(visited) < MaxDecls
  /\ \E decl \in Decls :
       LET name == decl.name
           idx == Len(visited) + 1
       IN /\ visited' = Append(visited, decl)
          /\ IF ~matches(decl)
             THEN UNCHANGED <<pc, err, fileVars>>
             ELSE \/ /\ files' = created(files, directiveNameOf(name))
                     /\ open' = open \cup {idx}
                     /\ events' = Append(events, [op |-> "create", decl |-> idx])
                     /\ pc' = "parseDirective"
                     /\ written' = [written EXCEPT ![directiveNameOf(name)] = NotWritten]
                     /\ UNCHANGED err
                  \/ /\ Fatal("create")
                     /\ UNCHANGED fileVars
  /\ UNCHANGED <<parseVars, content, noteVars>>

\* ast.Inspect has no node left: main returns.
InspectDone ==
  /\ pc = "inspect"
  /\ pc' = "done"
  /\ UNCHANGED <<visited, fileVars, parseVars, content, err, noteVars>>

\* tmpl.Execute(&content, d)
ExecuteTemplateIntoFile ==
  /\ pc = "execute"
  /\ \/ /\ content' = Execute(d)
        /\ pc' = "write"
        /\ UNCHANGED <<err, fileVars>>
     \/ /\ Fatal("execute")
        /\ files' = [files EXCEPT ![directiveNameOf(Last(visited).name)].data =
                       @ \o SubSeq(Execute(d), 1, 1)]
        /\ UNCHANGED <<content, open, events, written>>
  /\ UNCHANGED <<visited, parseVars, noteVars>>

ExecuteTemplate ==
  /\ pc = "execute"
  /\ \/ /\ content' = Execute(d)
        /\ pc' = "write"
        /\ UNCHANGED err
     \/ /\ Fatal("execute")
        /\ UNCHANGED content
  /\ UNCHANGED <<visited, fileVars, parseVars, noteVars>>

\* f.WriteString(html.UnescapeString(content.String())), the callback's
\* return and its deferred f.Close(). A failed write leaves a proper prefix
\* of the text in the file: none of it, or all but its last byte.
WriteFile ==
  /\ pc = "write"
  /\ LET idx == Len(visited)
         name == directiveNameOf(visited[idx].name)
         text == UnescapeString(content)
     IN \/ /\ files' = [files EXCEPT ![name].data = @ \o text]
           /\ events' = Append(Append(events, [op |-> "write", decl |-> idx]),
                               [op |-> "close", decl |-> idx])
           /\ open' = openAfterReturn(open, idx)
           /\ written' = [written EXCEPT ![name] = [decl |-> idx, text |-> text]]
           /\ pc' = "inspect"
           /\ UNCHANGED err
        \/ /\ \E n \in {0, Len(text) - 1} :
                files' = [files EXCEPT ![name].data = @ \o SubSeq(text, 1, n)]
           /\ Fatal("write")
           /\ UNCHANGED <<open, events, written>>
  /\ UNCHANGED <<visited, parseVars, content, noteVars>>

\* ---------------------------------------------------------- parseDirective
\* The composite literal and previousKey := "".
ParseEnter ==
  /\ pc = "parseDirective"
  /\ \E now \in Times : d' = NewDirective(directiveNameOf(Last(visited).name), now)
  /\ previousKey' = empty
  /\ consumed' = <<>>
  /\ pc' = "fields"
  /\ UNCHANGED <<visited, fileVars, nread, content, err, noteVars>>

\* ast.CommentGroup.Text leaves no blank line first, last or after a blank
\* line; a doc string given to parseDirective directly may hold any.
TextLine(line) ==
  IF line # empty THEN TRUE
  ELSE IF consumed = <<>> THEN FALSE ELSE Last(consumed) # empty

TextEnd == IF consumed = <<>> THEN TRUE ELSE Last(consumed) # empty

\* One iteration of the first loop on the line the scanner delivers.
FieldsLine(line) ==
  /\ pc = "fields"
  /\ nread < MaxLines
  /\ consumed' = Append(consumed, line)
  /\ nread' = nread + 1
  /\ IF ignoredLine(line)
     THEN UNCHANGED <<pc, d, previousKey, err>>
     ELSE IF markerLine(line)
     THEN pc' = "body" /\ UNCHANGED <<d, previousKey, err>>
     ELSE LET kv == keyValue(previousKey, line)
              r == dispatch(d, previousKey, kv.key, kv.value)
          IN IF r.fatal
             THEN Fatal("unknown field") /\ UNCHANGED <<d, previousKey>>
             ELSE /\ d' = r.d
                  /\ previousKey' = r.previousKey
                  /\ UNCHANGED <<pc, err>>
  /\ UNCHANGED <<visited, fileVars, content, noteVars>>

\* The text after a body line in Content.
terminatorNone == empty

terminator == newline

\* One iteration of the second loop.
BodyLineLeavesOnMarker(line) ==
  /\ pc = "body"
  /\ nread < MaxLines
  /\ consumed' = Append(consumed, line)
  /\ nread' = nread + 1
  /\ IF markerLine(line)
     THEN pc' = "fields" /\ UNCHANGED d
     ELSE /\ d' = [d EXCEPT !.Content = @ \o decorateNote(line) \o terminator]
          /\ UNCHANGED pc
  /\ UNCHANGED <<previousKey, visited, fileVars, content, err, noteVars>>

BodyLine(line) ==
  /\ pc = "body"
  /\ nread < MaxLines
  /\ consumed' = Append(consumed, line)
  /\ nread' = nread + 1
  /\ d' = [d EXCEPT !.Content = @ \o decorateNote(line) \o terminator]
  /\ UNCHANGED <<pc, previousKey, visited, fileVars, content, err, noteVars>>

\* scanner.Scan() is false: both loops are over, parseDirective returns d.
ParseReturn ==
  /\ pc \in {"fields", "body"}
  /\ pc' = "execute"
  /\ UNCHANGED <<visited, fileVars, parseVars, content, err, noteVars>>

\* ------------------------------------------------------ the whole program
ScanFields == \E line \in DocLines : TextLine(line) /\ FieldsLine(line)
ScanBody == \E line \in DocLines : TextLine(line) /\ BodyLine(line)
ScanEnd == TextEnd /\ ParseReturn

Next ==
  \/ LoadTemplate
  \/ ReadSource
  \/ ParseSource
  \/ VisitDecl
  \/ InspectDone
  \/ ParseEnter
  \/ ScanFields
  \/ ScanBody
  \/ ScanEnd
  \/ ExecuteTemplate
  \/ WriteFile

Spec == Init /\ [][Next]_vars

\* ------------------------------------- parseDirective on any doc string
\* The state at the call parseDirective(directiveName, doc) for the first
\* declaration of a run.
InitParse ==
  /\ pc = "parseDirective"
  /\ \E name \in {n \in DeclNames : HasPrefix(n, directivePrefix)} :
       /\ visited = <<[name |-> name, hasDoc |-> TRUE]>>
       /\ files = created([n \in OutNames |-> NoFile], directiveNameOf(name))
  /\ open = {1}
  /\ events = <<[op |-> "create", decl |-> 1]>>
  /\ written = [n \in OutNames |-> NotWritten]
  /\ d = NoDirective
  /\ previousKey = empty
  /\ consumed = <<>>
  /\ nread = 0
  /\ content = empty
  /\ err = ""
  /\ noteArg = empty
  /\ noteRet = <<>>

ParseFields == \E line \in ParseLines : FieldsLine(line)
ParseBody == \E line \in ParseLines : BodyLine(line)

NextParse ==
  \/ ParseEnter
  \/ ParseFields
  \/ ParseBody
  \/ ParseReturn

SpecParse == InitParse /\ [][NextParse]_vars

\* ------------------------------------------- decorateNote on any body line
InitNote ==
  /\ pc = "decorateNote"
  /\ visited = <<>>
  /\ files = [n \in OutNames |-> NoFile]
  /\ open = {}
  /\ events = <<>>
  /\ written = [n \in OutNames |-> NotWritten]
  /\ d = NoDirective
  /\ previousKey = empty
  /\ consumed = <<>>
  /\ nread = 0
  /\ content = empty
  /\ err = ""
  /\ noteArg \in NoteInputs
  /\ noteRet = <<>>

CallDecorateNote ==
  /\ pc = "decorateNote"
  /\ noteRet' = <<decorateNote(noteArg)>>
  /\ pc' = "returned"
  /\ UNCHANGED <<visited, fileVars, parseVars, content, err, noteArg>>

NextNote == CallDecorateNote

SpecNote == InitNote /\ [][NextNote]_vars

\* ------------------------------------------- rendering and writing alone
\* The state at tmpl.Execute(&content, d) for a first declaration whose
\* record holds a text in one of its fields.
InitRender ==
  /\ pc = "execute"
  /\ visited = <<[name |-> fnFoo, hasDoc |-> TRUE]>>
  /\ files = created([n \in OutNames |-> NoFile], fileFoo)
  /\ open = {1}
  /\ events = <<[op |-> "create", decl |-> 1]>>
  /\ written = [n \in OutNames |-> NotWritten]
  /\ \E now \in Times, f \in {"Description", "Syntax", "Default", "Content"},
        text \in RenderInputs :
       d = [NewDirective(fileFoo, now) EXCEPT ![f] = text]
  /\ previousKey = empty
  /\ consumed = <<>>
  /\ nread = 0
  /\ content = empty
  /\ err = ""
  /\ noteArg = empty
  /\ noteRet = <<>>

NextRender == ExecuteTemplate \/ WriteFile

SpecRender == InitRender /\ [][NextRender]_vars

\* ================================================================ properties
\* The words of the claims, said without the operators of the model above.
BeginsWith(line, p) == Len(line) >= Len(p) /\ \A i \in 1..Len(p) : line[i] = p[i]
AllWhitespace(line) == \A i \in 1..Len(line) : line[i] \in {" ", "\t"}
Ignored(line) == BeginsWith(line, directivePrefix) \/ AllWhitespace(line)
SepAt(line, i) == i + 1 <= Len(line) /\ line[i] = ":" /\ line[i + 1] = " "
HasSeparator(line) == \E i \in 1..Len(line) : SepAt(line, i)
FirstSep(line) ==
  CHOOSE i \in 1..Len(line) : SepAt(line, i) /\ \A j \in 1..(i - 1) : ~SepAt(line, j)
KeyOf(line) == SubSeq(line, 1, FirstSep(line) - 1)
ValueOf(line) == SubSeq(line, FirstSep(line) + 2, Len(line))
Recognized == {strDescription, strSyntax, strDefault}
FieldName(key) ==
  IF key = strDescription THEN "Description"
  ELSE IF key = strSyntax THEN "Syntax" ELSE "Default"
WithAppended(rec, key, v) == [rec EXCEPT ![FieldName(key)] = @ \o v]

\* The step is one scanner.Scan() that delivered a line, and that line.
Scans == Len(consumed') = Len(consumed) + 1
scannedLine == consumed'[Len(consumed')]

\* A line of the field block that carries a key the code does not know.
UnknownKeyLine(line) ==
  /\ ~Ignored(line)
  /\ ~BeginsWith(line, marker)
  /\ HasSeparator(line)
  /\ KeyOf(line) \notin Recognized

AbortsUnknownField == pc' = "fatal" /\ err' = "unknown field" /\ d' = d

\* C1 as stated: in collecting-fields mode a line with the separator and an
\* unrecognized key aborts with an unknown-field error, whether or not a
\* current field is established, and modifies no field.
C1_UnknownKeyAlwaysAborts ==
  [][(pc = "fields" /\ Scans /\ UnknownKeyLine(scannedLine)) => AbortsUnknownField]_vars

\* C1 as amended: such a line aborts with an unknown-field error, no field
\* modified, exactly when no current field is established; with a current
\* field established parseDirective goes on, and the text after the first
\* separator is appended to the current field, which stays current.
C1_UnknownKeyAbortsOnlyWithoutCurrentField ==
  [][(pc = "fields" /\ Scans /\ UnknownKeyLine(scannedLine)) =>
       IF previousKey = empty
       THEN AbortsUnknownField
       ELSE /\ pc' = "fields"
            /\ err' = err
            /\ previousKey' = previousKey
            /\ d' = WithAppended(d, previousKey, ValueOf(scannedLine))]_vars

\* C1's case: an unknown key met while Description is current, parsing goes on.
C1_Witness ==
  /\ pc = "fields"
  /\ consumed = <<lineDesc, lineBogus>>
  /\ d.Description = <<"a", "x">>

\* No line of the field block read so far carried a recognized key.
NoKeySeen(lines) ==
  \A i \in 1..Len(lines) :
    ~(~Ignored(lines[i]) /\ HasSeparator(lines[i]) /\ KeyOf(lines[i]) \in Recognized)

\* C10: in collecting-fields mode a line that is not ignored, is no marker
\* and has no separator, met before any recognized key, aborts with an
\* unknown-field error and modifies no field.
C10_ContinuationWithoutKeyAborts ==
  [][(/\ pc = "fields"
      /\ Scans
      /\ ~Ignored(scannedLine)
      /\ ~BeginsWith(scannedLine, marker)
      /\ ~HasSeparator(scannedLine)
      /\ NoKeySeen(consumed)) => AbortsUnknownField]_vars

\* C10's case: the abort on a separator-less line after an ignored line only.
C10_Witness ==
  /\ pc = "fatal"
  /\ err = "unknown field"
  /\ consumed = <<lineEcho, lineCont>>

\* C5 as stated: collecting-fields is left for collecting-body exactly on a
\* line that consists of three or more dashes and nothing else.
OnlyDashes(line) == Len(line) >= 3 /\ \A i \in 1..Len(line) : line[i] = "-"
C5_MarkerIsOnlyDashes ==
  [][(pc = "fields" /\ Scans) => (pc' = "body" <=> OnlyDashes(scannedLine))]_vars

\* C5 as amended: collecting-fields is left for collecting-body exactly on a
\* line that begins with three dashes, whatever follows them; that line is
\* discarded, and nothing else enters collecting-body.
C5_MarkerIsDashPrefix ==
  [][/\ (pc = "fields" /\ Scans) =>
          /\ pc' = "body" <=> BeginsWith(scannedLine, marker)
          /\ pc' = "body" => (d' = d /\ previousKey' = previousKey)
     /\ (pc # "body" /\ pc' = "body") => (pc = "fields" /\ Scans)]_vars

\* C5's case: body mode entered on "--- x".
C5_Witness == pc = "body" /\ consumed = <<lineDesc, lineMarkerText>>

\* The field block of the lines read (those before the first line that
\* begins with three dashes) and the body (those after it).
MarkerAt(lines) ==
  LET at == {i \in 1..Len(lines) : BeginsWith(lines[i], marker)}
  IN IF at = {} THEN Len(lines) + 1 ELSE CHOOSE i \in at : \A j \in at : i <= j
FieldBlock(lines) == SubSeq(lines, 1, MarkerAt(lines) - 1)
BodyOf(lines) == SubSeq(lines, MarkerAt(lines) + 1, Len(lines))

KeyLine(line) == ~Ignored(line) /\ HasSeparator(line) /\ KeyOf(line) \in Recognized

\* The key of the last key line among the first i lines, "" when none.
CurrentFieldAt(lines, i) ==
  LET js == {j \in 1..i : KeyLine(lines[j])}
  IN IF js = {} THEN empty
     ELSE KeyOf(lines[CHOOSE j \in js : \A k \in js : k <= j])

\* What line i gives to field F: the text after its first separator when it
\* carries F, a space and the whole line when it has no separator and F is
\* current, nothing otherwise.
Contribution(lines, i, F) ==
  IF Ignored(lines[i]) THEN empty
  ELSE IF HasSeparator(lines[i])
  THEN IF KeyOf(lines[i]) = F THEN ValueOf(lines[i]) ELSE empty
  ELSE IF CurrentFieldAt(lines, i - 1) = F THEN <<" ">> \o lines[i] ELSE empty

RECURSIVE ConcatUpTo(_, _, _)
ConcatUpTo(lines, n, F) ==
  IF n = 0 THEN empty ELSE ConcatUpTo(lines, n - 1, F) \o Contribution(lines, n, F)

\* Every line with a separator carries one of the three keys.
WellKeyed(lines) ==
  \A i \in 1..Len(lines) :
    (~Ignored(lines[i]) /\ HasSeparator(lines[i])) => KeyOf(lines[i]) \in Recognized

\* C4: for a doc comment whose key lines use only Description, Syntax and
\* Default, each field is the concatenation, in source order, of the values
\* of its key lines and of its continuation lines with a leading space, and
\* the current field is the most recently recognized key.
C4_FieldsAreConcatenation ==
  (pc \in {"fields", "body", "execute"} /\ WellKeyed(FieldBlock(consumed))) =>
    LET fb == FieldBlock(consumed)
    IN /\ d.Description = ConcatUpTo(fb, Len(fb), strDescription)
       /\ d.Syntax = ConcatUpTo(fb, Len(fb), strSyntax)
       /\ d.Default = ConcatUpTo(fb, Len(fb), strDefault)
       /\ previousKey = CurrentFieldAt(fb, Len(fb))

\* C4's case: a key line, another key, and a continuation of the second,
\* after which parseDirective has returned.
C4_Witness ==
  /\ pc = "execute"
  /\ consumed = <<lineDesc, lineSyn, lineCont>>
  /\ d.Description = <<"a">>
  /\ d.Syntax = <<"b", " ", "m", "o", "r", "e">>

RECURSIVE JoinLines(_)
JoinLines(lines) ==
  IF lines = <<>> THEN empty ELSE Head(lines) \o <<"\n">> \o JoinLines(Tail(lines))

NewlinesIn(text) == Cardinality({i \in 1..Len(text) : text[i] = "\n"})

\* C6: every line after the first marker line is appended to Content once,
\* in order, Note-decorated and followed by one line terminator; Content has
\* as many lines as follow the marker.
C6_ContentIsBody ==
  pc \in {"fields", "body", "execute"} =>
    LET body == BodyOf(consumed)
    IN /\ d.Content = JoinLines([i \in 1..Len(body) |-> decorateNote(body[i])])
       /\ NewlinesIn(d.Content) = Len(body)

\* C6's case: a blank line and a further marker line in the body.
C6_Witness ==
  /\ pc = "execute"
  /\ consumed = <<lineMarker, empty, lineMarker4>>
  /\ d.Content = <<"\n", "-", "-", "-", "-", "\n">>

\* The places (1-based) where Note: starts in s.
NoteStarts(s) == {i \in 1..Len(s) : BeginsWith(SubSeq(s, i, Len(s)), noteOld)}

\* Where character k of s stands in the decorated text: two asterisks are
\* put before and after every Note: that starts at or before k, resp. ends
\* before k.
PlaceOf(s, k) ==
  k + 2 * Cardinality({i \in NoteStarts(s) : i <= k})
    + 2 * Cardinality({i \in NoteStarts(s) : i + Len(noteOld) <= k})

Decorated(s, r) ==
  /\ Len(r) = Len(s) + 4 * Cardinality(NoteStarts(s))
  /\ \A k \in 1..Len(s) : r[PlaceOf(s, k)] = s[k]
  /\ \A q \in 1..Len(r) : q \notin {PlaceOf(s, k) : k \in 1..Len(s)} => r[q] = "*"
  /\ \A i \in NoteStarts(s) :
       SubSeq(r, PlaceOf(s, i) - 2, PlaceOf(s, i) + Len(noteOld) + 1) = noteNew

\* C7: decorateNote replaces every occurrence of Note: by **Note:** and
\* leaves every other character in place; a line without Note: is unchanged.
C7_EveryNoteDecorated ==
  noteRet # <<>> =>
    /\ Decorated(noteArg, noteRet[1])
    /\ NoteStarts(noteArg) = {} => noteRet[1] = noteArg

\* C7's case: a line with two occurrences of Note:.
C7_Witness ==
  /\ noteRet # <<>>
  /\ Cardinality(NoteStarts(noteArg)) = 2
  /\ Len(noteRet[1]) = Len(noteArg) + 8

\* ------------------------------------------------- properties of the run
HasEvent(op, i) == \E k \in 1..Len(events) : events[k] = [op |-> op, decl |-> i]
IsDirectiveWithDoc(decl) == BeginsWith(decl.name, directivePrefix) /\ decl.hasDoc
FileOf(decl) == files[SubSeq(decl.name, 10, Len(decl.name))]

\* C2 as stated: when a doc comment raises an unknown-field error the run
\* aborts and no output file has been created, truncated or written for that
\* declaration or a later one.
C2_NoFileTouchedOnUnknownField ==
  (pc = "fatal" /\ err = "unknown field") =>
    \A k \in 1..Len(events) : events[k].decl < Len(visited)

\* C3 as stated: a file is created for a declaration if and only if its name
\* begins with directive and its doc comment is attached and non-empty; seen
\* once the doc comment of the declaration in hand has been read to its end.
C3_FileIffNonEmptyDoc ==
  pc = "execute" =>
    (HasEvent("create", Len(visited)) <=>
       (IsDirectiveWithDoc(Last(visited)) /\ consumed # <<>>))

\* C3 as amended: for every declaration the traversal reaches, its file is
\* created if and only if its name begins with directive and it has an
\* attached doc comment, whose text may be empty (unless os.Create fails,
\* which aborts the run); a declaration failing either test produces no file
\* and no error, and the traversal goes on.
C3_FileIffDirectiveWithDoc ==
  \A i \in 1..Len(visited) :
    LET m == IsDirectiveWithDoc(visited[i])
    IN /\ HasEvent("create", i) => (m /\ FileOf(visited[i]).exists)
       /\ (m /\ ~HasEvent("create", i)) =>
            (i = Len(visited) /\ pc = "fatal" /\ err = "create")
       /\ (~m /\ i = Len(visited)) => (pc \in {"inspect", "done"} /\ err = "")

\* C3's case: a function that is no directive and a directive without doc
\* comment are passed over, and the file of a directive whose doc comment
\* has no line is created.
C3_Witness ==
  /\ pc = "execute"
  /\ visited = <<[name |-> fnHelper, hasDoc |-> TRUE], [name |-> fnBare, hasDoc |-> TRUE]>>
  /\ consumed = <<>>
  /\ HasEvent("create", 2)
  /\ ~HasEvent("create", 1)
  /\ files[empty].exists

\* C8 as stated: every Directive record has a non-empty Name, the name of
\* its declaration less its first 9 characters.
C8_NameNonEmpty ==
  pc \in {"fields", "body", "execute", "write"} =>
    /\ d.Name = SubSeq(Last(visited).name, 10, Len(Last(visited).name))
    /\ d.Name # empty

\* C9: matched declarations are processed in their order in the source, the
\* file of each is opened, written and closed before the next is opened, and
\* at most one destination file is open at any time.
C9_OneFileAtATime ==
  /\ Cardinality(open) <= 1
  /\ open \subseteq {Len(visited)}
  /\ \A k \in 1..Len(events) :
       /\ events[k].decl \in 1..Len(visited)
       /\ IsDirectiveWithDoc(visited[events[k].decl])
       /\ events[k].op = "create" =>
            /\ \A j \in 1..(k - 1) : events[j].decl < events[k].decl
            /\ k > 1 => (/\ k > 3
                         /\ events[k - 1].op = "close"
                         /\ events[k - 2].op = "write"
                         /\ events[k - 3].op = "create"
                         /\ events[k - 1].decl = events[k - 3].decl
                         /\ events[k - 2].decl = events[k - 3].decl)
            /\ \A i \in 1..(events[k].decl - 1) :
                 IsDirectiveWithDoc(visited[i]) => HasEvent("close", i)
       /\ events[k].op # "create" => (k > 1 /\ events[k - 1].decl = events[k].decl)

\* C9's case: the second directive's file is open after the first's was
\* created, written and closed.
C9_Witness ==
  /\ Len(events) = 4
  /\ events[4] = [op |-> "create", decl |-> 2]
  /\ events[3] = [op |-> "close", decl |-> 1]
  /\ open = {2}

\* ------------------------------------------------ properties, continued
AllIgnored(lines) == \A i \in 1..Len(lines) : Ignored(lines[i])

\* C11: a doc comment with no line, or with only blank lines and lines that
\* begin with directive, gives a Directive whose Description, Syntax,
\* Default and Content are empty, raises no error, and its file is created.
C11_IgnoredOnlyDocIsEmpty ==
  (pc # "parseDirective" /\ AllIgnored(consumed)) =>
    /\ pc \in {"fields", "execute"}
    /\ err = ""
    /\ d.Description = empty
    /\ d.Syntax = empty
    /\ d.Default = empty
    /\ d.Content = empty
    /\ HasEvent("create", Len(visited))
    /\ FileOf(Last(visited)).exists

\* C11's case: parseDirective has returned from a doc comment of an echo
\* line and two blank lines.
C11_Witness ==
  /\ pc = "execute"
  /\ consumed = <<lineEcho, lineSpaces, empty>>
  /\ d = NewDirective(d.Name, d.LastModification)

\* The output directory as the run found it.
FilesAtStart == [n \in OutNames |-> IF n = fileFoo THEN OldFile ELSE NoFile]

\* C12: when the source file cannot be parsed the run ends fatally before any
\* declaration is visited, and no output file has been created, truncated or
\* written.
C12_ParseFailureTouchesNothing ==
  (err = "parse") =>
    /\ pc = "fatal"
    /\ visited = <<>>
    /\ events = <<>>
    /\ open = {}
    /\ files = FilesAtStart

\* C12's case: parser.ParseFile has failed and the run has ended.
C12_Witness == pc = "fatal" /\ err = "parse" /\ files[fileFoo] = OldFile

\* What line i of a field block gives to field F when the block raises no
\* error: as Contribution, and a line with a key that is none of the three
\* gives the text after its first separator to the current field.
GivenTo(lines, i, F) ==
  IF Ignored(lines[i]) THEN empty
  ELSE IF HasSeparator(lines[i])
  THEN IF KeyOf(lines[i]) = F THEN ValueOf(lines[i])
       ELSE IF KeyOf(lines[i]) \notin Recognized /\ CurrentFieldAt(lines, i - 1) = F
       THEN ValueOf(lines[i]) ELSE empty
  ELSE IF CurrentFieldAt(lines, i - 1) = F THEN <<" ">> \o lines[i] ELSE empty

RECURSIVE FieldOf(_, _, _)
FieldOf(lines, n, F) ==
  IF n = 0 THEN empty ELSE FieldOf(lines, n - 1, F) \o GivenTo(lines, n, F)

\* The record of a doc comment: a function of the directive's name, the
\* comment's lines and the time of the run, and of nothing else.
RecordOf(name, lines, now) ==
  LET fb == FieldBlock(lines)
      body == BodyOf(lines)
  IN [Name |-> name,
      Description |-> FieldOf(fb, Len(fb), strDescription),
      Syntax |-> FieldOf(fb, Len(fb), strSyntax),
      Default |-> FieldOf(fb, Len(fb), strDefault),
      Date |-> empty,
      LastModification |-> now,
      Content |-> JoinLines([i \in 1..Len(body) |-> decorateNote(body[i])])]

\* The text of the file of that record.
TextOf(name, lines, now) == UnescapeString(Execute(RecordOf(name, lines, now)))

\* Two texts that differ at most in one occurrence of the time of the run.
SameButStamp(text1, now1, text2, now2) ==
  \E i \in 0..(Len(text1) - Len(now1)) :
    /\ SubSeq(text1, i + 1, i + Len(now1)) = now1
    /\ text2 = SubSeq(text1, 1, i) \o now2 \o SubSeq(text1, i + Len(now1) + 1, Len(text1))

\* The documented directives visited so far whose file is <n>.md.
DirectivesNamed(n) ==
  {i \in 1..Len(visited) :
     IsDirectiveWithDoc(visited[i])
       /\ SubSeq(visited[i].name, 10, Len(visited[i].name)) = n}

\* The step creates the file of the declaration it visits.
CreatesFile == pc = "inspect" /\ pc' = "parseDirective"

\* The step is the write and the return of the callback.
WritesFile == pc = "write" /\ pc' = "inspect"

\* C13: a run changes the output files in two ways only.  Visiting a
\* documented directive leaves its file existing and empty, whatever it
\* held.  The write leaves in it the text that the directive's name, the
\* lines of its doc comment and the time of the run determine, a text that
\* is the same for another time of the run but for the LastModification
\* value.  No other step of a run that goes on changes a file, and a file
\* of no documented directive is as the run found it.  So two runs on the
\* same source leave the same files with the same text but for that value.
C13_OutputIsFunctionOfSource ==
  [][LET n == SubSeq(Last(visited').name, 10, Len(Last(visited').name))
     IN /\ CreatesFile =>
             files' = [files EXCEPT ![n] = [exists |-> TRUE, data |-> empty]]
        /\ WritesFile =>
             \E text \in {TextOf(n, consumed, d.LastModification)} :
               /\ files' = [files EXCEPT ![n] = [exists |-> TRUE, data |-> text]]
               /\ \A now \in Times :
                    \E other \in {TextOf(n, consumed, now)} :
                      SameButStamp(text, d.LastModification, other, now)
        /\ (~CreatesFile /\ ~WritesFile /\ pc' # "fatal") => files' = files
        /\ \A m \in OutNames :
             DirectivesNamed(m)' = {} => files'[m] = FilesAtStart[m]]_vars

\* C13's case: two declarations of directiveFoo have been written in turn
\* over the Foo.md of an earlier run, and the run has ended.
C13_Witness ==
  /\ pc = "done"
  /\ Len(visited) = 2
  /\ DirectivesNamed(fileFoo) = {1, 2}
  /\ consumed = <<lineDesc, lineMarker, lineNote>>
  /\ HasEvent("close", 1)
  /\ HasEvent("close", 2)
  /\ files[fileFoo].data = TextOf(fileFoo, consumed, d.LastModification)

\* An HTML-entity sequence starts at place i of text: an ampersand and one
\* of the names html.UnescapeString knows, or an ampersand, a hash, digits
\* and a semicolon.
EntityNames == {<<"a", "m", "p">>, <<"l", "t">>, <<"g", "t">>, <<"q", "u", "o", "t">>}
Digits == {"0", "1", "2", "3", "4", "5", "6", "7", "8", "9"}
EntityAt(text, i) ==
  /\ text[i] = "&"
  /\ \/ \E nm \in EntityNames : BeginsWith(SubSeq(text, i + 1, Len(text)), nm)
     \/ /\ i + 3 <= Len(text)
        /\ text[i + 1] = "#"
        /\ \E j \in (i + 3)..Len(text) :
             text[j] = ";" /\ \A k \in (i + 2)..(j - 1) : text[k] \in Digits
HasEntity(text) == \E i \in 1..Len(text) : EntityAt(text, i)

\* The fields of a record as the template lays them out, each on its line,
\* nothing escaped.
Literal(rec) ==
  rec.Name \o <<"\n">> \o rec.Description \o <<"\n">> \o rec.Syntax \o <<"\n">>
    \o rec.Default \o <<"\n">> \o rec.Date \o <<"\n">> \o rec.LastModification
    \o <<"\n">> \o rec.Content \o <<"\n">>

\* C14: when no field of the record holds an HTML-entity sequence, the text
\* written to the file holds none, and it is the fields in their literal
\* form.
C14_NoEntityInWrittenText ==
  (/\ pc = "inspect"
   /\ HasEvent("write", Len(visited))
   /\ \A f \in DOMAIN d : ~HasEntity(d[f])) =>
    /\ ~HasEntity(FileOf(Last(visited)).data)
    /\ FileOf(Last(visited)).data = Literal(d)

\* C14's case: a Syntax of an angle bracket, an ampersand and a quote has
\* been rendered and written.
C14_Witness ==
  /\ pc = "inspect"
  /\ HasEvent("write", 1)
  /\ d.Syntax = <<"<", "&", "\"">>
  /\ ~HasEntity(d.Syntax)
  /\ content # FileOf(Last(visited)).data

\* The line holds directive at a place after its first character.
DirectiveLater(line) ==
  \E i \in 2..Len(line) : BeginsWith(SubSeq(line, i, Len(line)), directivePrefix)

\* The step treats the line as a line of the field block that is not
\* ignored: a marker, a key line, or a continuation.
Processed(line) ==
  IF BeginsWith(line, marker)
  THEN pc' = "body" /\ d' = d /\ previousKey' = previousKey /\ err' = err
  ELSE IF HasSeparator(line) /\ KeyOf(line) \in Recognized
  THEN /\ d' = WithAppended(d, KeyOf(line), ValueOf(line))
       /\ previousKey' = KeyOf(line)
       /\ pc' = pc /\ err' = err
  ELSE IF previousKey = empty
  THEN AbortsUnknownField
  ELSE /\ d' = WithAppended(d, previousKey,
                            IF HasSeparator(line) THEN ValueOf(line) ELSE <<" ">> \o line)
       /\ previousKey' = previousKey
       /\ pc' = pc /\ err' = err

\* C15: in collecting-fields mode a line that begins with directive, or is
\* all whitespace, changes no field, not Content, not the current field and
\* not the mode, and raises no error, whatever else it holds; a line that
\* holds directive only at a later place is treated as any other line.
C15_IgnoredLineChangesNothing ==
  [][(pc = "fields" /\ Scans) =>
       IF Ignored(scannedLine)
       THEN d' = d /\ previousKey' = previousKey /\ pc' = pc /\ err' = err
       ELSE DirectiveLater(scannedLine) => Processed(scannedLine)]_vars

\* C15's case: after a key line, an echo line with a separator and an
\* unknown key has been passed over, and a line with directive in its
\* middle has been taken as a continuation.
C15_Witness ==
  /\ pc = "fields"
  /\ consumed = <<lineDesc, lineEcho, lineMid>>
  /\ HasSeparator(lineEcho)
  /\ d.Description = <<"a", " ">> \o lineMid

\* C16: in collecting-fields mode a line with the separator and a key that
\* is none of the three, read after some key line, does not abort: the text
\* after its first separator, and nothing before it, is appended to the
\* field of the last key line, which stays the current field.  An
\* unknown-field error is raised only while no key line has been read.
C16_UnknownKeyAfterKeyAppendsValue ==
  [][(pc = "fields" /\ Scans) =>
       /\ (UnknownKeyLine(scannedLine) /\ ~NoKeySeen(consumed)) =>
            LET current == CurrentFieldAt(consumed, Len(consumed))
            IN /\ previousKey = current
               /\ d' = WithAppended(d, current, ValueOf(scannedLine))
               /\ previousKey' = current
               /\ pc' = "fields"
               /\ err' = err
       /\ (pc' = "fatal") =>
            (err' = "unknown field" /\ NoKeySeen(consumed) /\ previousKey = empty)]_vars

\* C16's case: Note: n after a Syntax line has given its n to Syntax.
C16_Witness ==
  /\ pc = "fields"
  /\ consumed = <<lineSyn, lineNote>>
  /\ d.Syntax = <<"b", "n">>
  /\ previousKey = strSyntax

\* The marker line is among the lines read.
MarkerRead == MarkerAt(consumed) <= Len(consumed)

\* C17: until the marker line has been read Content is empty; once it has
\* been read Description, Syntax, Default and the current field are never
\* changed, no step ends in an unknown-field error, and the mode is never
\* collecting-fields again.
C17_FieldBlockAndBodyDisjoint ==
  [][/\ ~MarkerRead => d.Content = empty
     /\ ~MarkerRead' => d'.Content = empty
     /\ MarkerRead =>
          /\ pc # "fields"
          /\ d'.Description = d.Description
          /\ d'.Syntax = d.Syntax
          /\ d'.Default = d.Default
          /\ previousKey' = previousKey
          /\ pc' \notin {"fields", "fatal"}
          /\ err' = err]_vars

\* C17's case: a Default line read after the marker is body text and has
\* left Default alone.
C17_Witness ==
  /\ pc = "body"
  /\ consumed = <<lineDesc, lineMarker, lineDef>>
  /\ d.Description = <<"a">>
  /\ d.Default = empty
  /\ d.Content = lineDef \o <<"\n">>

\* A documented directive is in hand: its file has been created and the
\* write has not been reached.
InHand == pc \in {"parseDirective", "fields", "body", "execute", "write"}

EmptyFile == [exists |-> TRUE, data |-> empty]

\* What the declarations before the one in hand have left in <n>.md.
LeftByEarlier(n) ==
  IF written[n] = NotWritten THEN FilesAtStart[n]
  ELSE [exists |-> TRUE, data |-> written[n].text]

\* The file is created, empty, before the doc comment is parsed and before
\* the template is rendered.
CreatedBeforeParse ==
  InHand =>
    /\ HasEvent("create", Len(visited))
    /\ ~HasEvent("write", Len(visited))
    /\ FileOf(Last(visited)) = EmptyFile

\* The run has ended in a fatal error on a documented directive.
AbortedOnDirective ==
  pc = "fatal" /\ visited # <<>> /\ IsDirectiveWithDoc(Last(visited))

\* Every earlier documented directive whose name is not that of the failing
\* one has its whole text in its file.
EarlierFilesWhole ==
  \A i \in 1..(Len(visited) - 1) :
    (IsDirectiveWithDoc(visited[i]) /\ visited[i].name # Last(visited).name) =>
      LET n == SubSeq(visited[i].name, 10, Len(visited[i].name))
      IN /\ written[n].decl >= i
         /\ files[n] = LeftByEarlier(n)

\* C18 as stated: the file is created before parsing and rendering, and
\* when any fatal error aborts the run the earlier files are whole and the
\* failing declaration's file exists and is empty.
C18_FailingFileEmptyOnAnyFatal ==
  /\ CreatedBeforeParse
  /\ AbortedOnDirective => (EarlierFilesWhole /\ FileOf(Last(visited)) = EmptyFile)

\* C18 as amended: the failing declaration's file exists and is empty when
\* the error is an unknown-field or a template execution error; when
\* os.Create fails the file is what the earlier declarations left, and when
\* the write fails it holds a proper prefix of the text.
C18_FailingFileEmptyUnlessIOError ==
  /\ CreatedBeforeParse
  /\ AbortedOnDirective =>
       LET n == SubSeq(Last(visited).name, 10, Len(Last(visited).name))
           text == TextOf(n, consumed, d.LastModification)
       IN /\ EarlierFilesWhole
          /\ err \in {"create", "unknown field", "execute", "write"}
          /\ err \in {"unknown field", "execute"} => files[n] = EmptyFile
          /\ err = "create" => files[n] = LeftByEarlier(n)
          /\ err = "write" =>
               /\ files[n].exists
               /\ Len(files[n].data) < Len(text)
               /\ files[n].data = SubSeq(text, 1, Len(files[n].data))

\* C18's case: the file of the bare directive has been written whole, and
\* an unknown key in directiveFoo's doc comment has then ended the run,
\* with Foo.md of the earlier run emptied.
C18_Witness ==
  /\ pc = "fatal"
  /\ err = "unknown field"
  /\ Len(visited) = 2
  /\ visited[1].name = fnBare
  /\ visited[2].name = fnFoo
  /\ written[empty].decl = 1
  /\ Len(written[empty].text) > 0
  /\ files[empty].data = written[empty].text
  /\ files[fileFoo] = EmptyFile

====
